---- MODULE Spec2Model ----
(***************************************************************************)
(* Model of the performance-budgets command line driver.                   *)
(*                                                                         *)
(* The repository holds two revisions of the same module:                  *)
(*   src/src/lib/index.js  (suffix _lib below)                             *)
(*   src/unnamed/part_000  (suffix _part below)                            *)
(* Both export an async function main that checks the URL argument,        *)
(* launches Chrome, runs lighthouse, evaluates the report against the      *)
(* budgets and prints diagnostics.  One behaviour of the model is one run  *)
(* of main of one of the two revisions.                                    *)
(***************************************************************************)
EXTENDS Integers, Sequences, FiniteSets, TLC

\* ------------------------------------------------------------ bounds
\* Largest number of resource items in the performance-budget audit.
MaxItems == 2
\* The timing threshold given to a configured audit.
TimeBudget == 2
\* The request count of a resource group, and by how many requests a group
\* over its count budget exceeds it.
ItemRequestCount == 20
ItemCountOver == 5

\* ------------------------------------------------------------ JavaScript values
\* The values a report field can hold, as far as the code distinguishes them.
Undefined == [t |-> "undefined", v |-> 0]
Null == [t |-> "null", v |-> 0]
Num(n) == [t |-> "number", v |-> n]
\* The string "<n> requests".
Requests(n) == [t |-> "string", v |-> n]

\* ToBoolean, as applied by ! and by filter callbacks.
Truthy(x) ==
  \/ x.t = "number" /\ x.v # 0
  \/ x.t = "string"

\* x !== undefined
Present(x) == x.t # "undefined"

\* Math.round(n / 1024) for an integer n: round half up.
RoundKb(n) == (2 * n + 1024) \div 2048

\* ------------------------------------------------------------ inputs
Files == {"lib", "part"}
Urls == {"undefined", "", "http://example.com"}

AuditOrder == <<"first-contentful-paint", "interactive">>
AuditIds == {AuditOrder[i] : i \in 1..Len(AuditOrder)}

\* measured values: below, at, and one above the threshold
Measures == {TimeBudget - 1, TimeBudget, TimeBudget + 1}

\* one record of data.audits: with or without a numericValue
AuditRecs == {[hasNumeric |-> FALSE, numericValue |-> 0]}
             \cup {[hasNumeric |-> TRUE, numericValue |-> m] : m \in Measures}

\* data.audits without the performance-budget entry
AuditMaps == UNION {[S -> AuditRecs] : S \in SUBSET AuditIds}

ItemSize == 300 * 1024
ItemSizeOver == 50 * 1024

SizeOverValues == {Undefined, Num(0), Num(ItemSizeOver)}
CountOverValues == {Undefined, Null, Requests(ItemCountOver)}

Items == [size : {ItemSize}, requestCount : {ItemRequestCount},
          sizeOverBudget : SizeOverValues, countOverBudget : CountOverValues]

ItemSeqs == UNION {[1..n -> Items] : n \in 0..MaxItems}

\* data.configSettings.speedBudgets: thresholds per audit id
SpeedBudgetMaps == UNION {[S -> {TimeBudget}] : S \in SUBSET AuditIds}

\* The lighthouse report (results.lhr).  Absent sections carry empty contents.
Report(ha, a, hp, hd, its, hc, hs, sb) ==
  [hasAudits |-> ha, audits |-> a,
   hasPerformanceBudget |-> hp, hasDetails |-> hd, items |-> its,
   hasConfigSettings |-> hc, hasSpeedBudgets |-> hs, speedBudgets |-> sb]

\* Which sections a report has.  A section inside an absent section is
\* absent too.
Shapes ==
  {sh \in [hasAudits : BOOLEAN, hasPerformanceBudget : BOOLEAN,
           hasDetails : BOOLEAN, hasConfigSettings : BOOLEAN,
           hasSpeedBudgets : BOOLEAN] :
     /\ sh.hasPerformanceBudget => sh.hasAudits
     /\ sh.hasDetails => sh.hasPerformanceBudget
     /\ sh.hasSpeedBudgets => sh.hasConfigSettings}

\* index.js reads its thresholds from configSettings.speedBudgets; part_000
\* never reads configSettings, its thresholds come from config/audit.json.
ShapesFor(f) ==
  IF f = "lib" THEN Shapes ELSE {sh \in Shapes : ~sh.hasConfigSettings}

\* The contents a section can have: nothing when it is absent.
AuditMapsOf(sh) == IF sh.hasAudits THEN AuditMaps ELSE {<< >>}
ItemSeqsOf(sh) == IF sh.hasDetails THEN ItemSeqs ELSE {<< >>}
SpeedBudgetMapsOf(sh) == IF sh.hasSpeedBudgets THEN SpeedBudgetMaps ELSE {<< >>}

\* config/audit.json of part_000: {audits: [{id, timeBudget}, ...]}
AuditEntries(S) ==
  SelectSeq([i \in 1..Len(AuditOrder) |->
               [id |-> AuditOrder[i], timeBudget |-> TimeBudget]],
            LAMBDA e : e.id \in S)

AuditConfigs ==
  {[hasAudits |-> TRUE, audits |-> AuditEntries(S)] : S \in SUBSET AuditIds}
  \cup {[hasAudits |-> FALSE, audits |-> << >>]}

NoAuditConfig == [hasAudits |-> FALSE, audits |-> << >>]
NoData == Report(FALSE, << >>, FALSE, FALSE, << >>, FALSE, FALSE, << >>)


\* ------------------------------------------------------------ output
\* One line written by log(...).  Headings carry no id and no figures.
Line(kind, id, expected, actual) ==
  [kind |-> kind, id |-> id, expected |-> expected, actual |-> actual]

UsageLine == Line("Please provide a url", "", 0, 0)
RequestingLine == Line("Requesting lighthouse data", "", 0, 0)
AdvisoryLine == Line("Using example configuration", "", 0, 0)
SuccessLine == Line("All budgets passed", "", 0, 0)
ErrorLine == Line("error", "", 0, 0)
SpeedHeading == Line("Failed page speed budget audits", "", 0, 0)
CountHeading == Line("Failed resource count budget audits", "", 0, 0)
SizeHeading == Line("Failed resource size budget audits", "", 0, 0)

DiagnosticKinds == {"speed", "count", "size"}

\* The values main's promise settles with.
UsageError == "Please provide a valid url"
BudgetsBroken == "Budgets broken"
GenericFailure == "Failed to get lighthouse data"
Resolved == "resolved"

\* ------------------------------------------------------------ evaluation
\* The positions of an array of n elements, in order: what filter and
\* forEach walk through.
Indices(n) == [i \in 1..n |-> i]

\* Variant of UrlMissing that tests only for a missing argument
\* (url === undefined) and lets the empty string through.
UrlMissing_undefinedOnly(u) == u = "undefined"

\* !url
UrlMissing(u) == u = "undefined" \/ u = ""

\* Variant of OverBudgetBy with the operands of the subtraction swapped.
OverBudgetBy_swapped(numericValue, timeBudget) ==
  IF timeBudget - numericValue > 0
  THEN Num(timeBudget - numericValue)
  ELSE Undefined

\* overBudget > 0 ? overBudget : undefined
OverBudgetBy(numericValue, timeBudget) ==
  IF numericValue - timeBudget > 0
  THEN Num(numericValue - timeBudget)
  ELSE Undefined

\* Variant of ItemSuccessful with the second negation dropped.
ItemSuccessful_droppedNot(item) ==
  ~Truthy(item.sizeOverBudget) /\ Truthy(item.countOverBudget)

\* ({ sizeOverBudget, countOverBudget }) => !sizeOverBudget && !countOverBudget
ItemSuccessful(item) ==
  ~Truthy(item.sizeOverBudget) /\ ~Truthy(item.countOverBudget)

\* audit => audit.countOverBudget !== undefined
CountFailed(item) == Present(item.countOverBudget)

\* audit => audit.sizeOverBudget !== undefined
SizeFailed(item) == Present(item.sizeOverBudget)

\* countOverBudget.split(" requests") exists only on strings
CanSplit(x) == x.t = "string"

\* requestCount - countOverBudget.split(" requests")[0]
ExpectedCount(item) == item.requestCount - item.countOverBudget.v

\* the size line: round((size - sizeOverBudget) / 1024) and round(size / 1024)
SizeLine(i, item) ==
  Line("size", ToString(i), RoundKb(item.size - item.sizeOverBudget.v),
       RoundKb(item.size))

CountLine(i, item) ==
  Line("count", ToString(i), ExpectedCount(item), item.requestCount)

\* What main remembers of one evaluation: its local variables.  speedKeys
\* lists the audits the validity count ranges over and overBudgetBy the field
\* the forEach left on each of them.
NoEval ==
  [evaluated |-> FALSE, isValid |-> FALSE,
   speedKeys |-> << >>, overBudgetBy |-> << >>,
   speedTotal |-> 0, successfulSpeedAudits |-> << >>,
   itemsTotal |-> 0, successfulBundleAudits |-> << >>,
   rendered |-> FALSE, failedSpeedAudits |-> << >>,
   failedRequestCountAudits |-> << >>, failedBundleAudits |-> << >>]

\* The result of the part of main that follows the await.
Result(out, res, locals) == [lines |-> out, outcome |-> res, ev |-> locals]

\* Variant of Caught that logs the error and falls off the end of main, so
\* that main's promise resolves.
Caught_swallowed(out, locals) == Result(out \o <<ErrorLine>>, Resolved, locals)

\* catch (error) { log(error); return Promise.reject(...) }
Caught(out, locals) == Result(out \o <<ErrorLine>>, GenericFailure, locals)


\* Object.keys(speedResults): every entry of data.audits, the
\* performance-budget entry included.
SpeedKeys_lib(d) ==
  SelectSeq(AuditOrder, LAMBDA id : id \in DOMAIN d.audits)
  \o (IF d.hasPerformanceBudget THEN <<"performance-budget">> ELSE << >>)

\* audit.overBudgetBy after the forEach of index.js.  An entry without a
\* numericValue is left alone; a missing threshold makes the difference NaN,
\* and NaN > 0 is false.
OverBudgetBy_lib(d, id) ==
  IF /\ id \in DOMAIN d.audits
     /\ d.audits[id].hasNumeric
     /\ id \in DOMAIN d.speedBudgets
  THEN OverBudgetBy(d.audits[id].numericValue, d.speedBudgets[id])
  ELSE Undefined

\* data.audits[...].overBudgetBy reads speedBudgets[audit.id], which throws
\* when speedBudgets is undefined.
ReadsSpeedBudgets_lib(d) ==
  \E id \in DOMAIN d.audits : d.audits[id].hasNumeric

\* main of index.js from the line after the await to its return.
Evaluate_lib(d) ==
  LET keys == SpeedKeys_lib(d)
      successfulSpeedAudits ==
        SelectSeq(keys, LAMBDA k : ~Truthy(OverBudgetBy_lib(d, k)))
      items == IF d.hasDetails THEN d.items ELSE << >>
      n == Len(items)
      successfulBundleAudits ==
        SelectSeq(Indices(n), LAMBDA i : ItemSuccessful(items[i]))
      isValid == /\ Len(successfulBundleAudits) = n
                 /\ Len(successfulSpeedAudits) = Len(keys)
      failedSpeedAudits ==
        SelectSeq(keys, LAMBDA k : Truthy(OverBudgetBy_lib(d, k)))
      failedRequestCountAudits ==
        SelectSeq(Indices(n), LAMBDA i : CountFailed(items[i]))
      failedBundleAudits ==
        SelectSeq(Indices(n), LAMBDA i : SizeFailed(items[i]))
      \* measured values are whole milliseconds, which Math.round keeps
      speedLines ==
        IF failedSpeedAudits = << >> THEN << >>
        ELSE <<SpeedHeading>> \o
             [j \in 1..Len(failedSpeedAudits) |->
                Line("speed", failedSpeedAudits[j],
                     d.speedBudgets[failedSpeedAudits[j]],
                     d.audits[failedSpeedAudits[j]].numericValue)]
      bad == {j \in 1..Len(failedRequestCountAudits) :
                ~CanSplit(items[failedRequestCountAudits[j]].countOverBudget)}
      splitThrows == bad # {}
      lastCount == IF splitThrows
                   THEN (CHOOSE j \in bad : \A k \in bad : j <= k) - 1
                   ELSE Len(failedRequestCountAudits)
      countLines ==
        IF failedRequestCountAudits = << >> THEN << >>
        ELSE <<CountHeading>> \o
             [j \in 1..lastCount |->
                CountLine(failedRequestCountAudits[j],
                          items[failedRequestCountAudits[j]])]
      sizeLines ==
        IF failedBundleAudits = << >> THEN << >>
        ELSE <<SizeHeading>> \o
             [j \in 1..Len(failedBundleAudits) |->
                SizeLine(failedBundleAudits[j], items[failedBundleAudits[j]])]
      ev == [evaluated |-> TRUE, isValid |-> isValid,
             speedKeys |-> keys,
             overBudgetBy |->
               [j \in 1..Len(keys) |-> OverBudgetBy_lib(d, keys[j])],
             speedTotal |-> Len(keys),
             successfulSpeedAudits |-> successfulSpeedAudits,
             itemsTotal |-> n,
             successfulBundleAudits |-> successfulBundleAudits,
             rendered |-> ~isValid,
             failedSpeedAudits |-> IF isValid THEN << >> ELSE failedSpeedAudits,
             failedRequestCountAudits |->
               IF isValid THEN << >> ELSE failedRequestCountAudits,
             failedBundleAudits |-> IF isValid THEN << >> ELSE failedBundleAudits]
  IN  IF ~d.hasAudits THEN Caught(<< >>, NoEval)
      ELSE IF ~d.hasConfigSettings THEN Caught(<< >>, NoEval)
      ELSE IF ~d.hasSpeedBudgets /\ ReadsSpeedBudgets_lib(d)
        THEN Caught(<< >>, NoEval)
      ELSE IF ~d.hasPerformanceBudget THEN Caught(<< >>, NoEval)
      ELSE IF isValid THEN Result(<<SuccessLine>>, Resolved, ev)
      ELSE IF splitThrows THEN Caught(speedLines \o countLines, ev)
      ELSE Result(speedLines \o countLines \o sizeLines, BudgetsBroken, ev)

\* Variant of OverBudgetBy_part that charges an audit without a measurement
\* its whole budget.
OverBudgetBy_part_unguarded(d, audit) ==
  IF audit.id \in DOMAIN d.audits /\ d.audits[audit.id].hasNumeric
  THEN OverBudgetBy(d.audits[audit.id].numericValue, audit.timeBudget)
  ELSE Num(audit.timeBudget)

\* audit.overBudgetBy after the forEach of part_000: set only when the
\* report has the audit with a numericValue.
OverBudgetBy_part(d, audit) ==
  IF audit.id \in DOMAIN d.audits /\ d.audits[audit.id].hasNumeric
  THEN OverBudgetBy(d.audits[audit.id].numericValue, audit.timeBudget)
  ELSE Undefined

\* main of part_000 from the line after the await to its return.  The
\* branch for an invalid run reads failedBudgets, which is declared nowhere:
\* the ReferenceError leaves the try block before any line is printed.
Evaluate_part(ac, d) ==
  LET speedAudits == ac.audits
      m == Len(speedAudits)
      successfulSpeedAudits ==
        SelectSeq(speedAudits, LAMBDA a : ~Truthy(OverBudgetBy_part(d, a)))
      items == IF d.hasDetails THEN d.items ELSE << >>
      n == Len(items)
      successfulBudgets ==
        SelectSeq(Indices(n), LAMBDA i : ItemSuccessful(items[i]))
      isValid == /\ Len(successfulBudgets) = n
                 /\ Len(successfulSpeedAudits) = m
      failedSpeedAudits ==
        SelectSeq(speedAudits, LAMBDA a : Truthy(OverBudgetBy_part(d, a)))
      ev == [evaluated |-> TRUE, isValid |-> isValid,
             speedKeys |-> [j \in 1..m |-> speedAudits[j].id],
             overBudgetBy |->
               [j \in 1..m |-> OverBudgetBy_part(d, speedAudits[j])],
             speedTotal |-> m,
             successfulSpeedAudits |->
               [j \in 1..Len(successfulSpeedAudits) |->
                  successfulSpeedAudits[j].id],
             itemsTotal |-> n,
             successfulBundleAudits |-> successfulBudgets,
             rendered |-> FALSE,
             failedSpeedAudits |->
               IF isValid THEN << >>
               ELSE [j \in 1..Len(failedSpeedAudits) |-> failedSpeedAudits[j].id],
             failedRequestCountAudits |-> << >>,
             failedBundleAudits |-> << >>]
  IN  IF ~ac.hasAudits THEN Caught(<< >>, NoEval)
      ELSE IF ~d.hasAudits THEN Caught(<< >>, NoEval)
      ELSE IF ~d.hasPerformanceBudget THEN Caught(<< >>, NoEval)
      ELSE IF isValid THEN Result(<<SuccessLine>>, Resolved, ev)
      ELSE Caught(<< >>, ev)


\* ------------------------------------------------------------ state
VARIABLES
  file,                \* which revision's main runs
  url,                 \* process.argv[2]
  configOverrideBound, \* whether the free identifier configOverride of
                       \* index.js resolves in the global scope
  pc,                  \* where the run stands
  chrome,              \* the browser process: "none", "running", "killed"
  launchCalls,         \* calls of chromeLauncher.launch
  lighthouseCalls,     \* calls of lighthouse
  killCalls,           \* calls of chrome.kill
  auditConfig,         \* getAuditBudgets() of part_000
  data,                \* results.lhr
  promise,             \* launchChromeAndRunLighthouse's promise
  logs,                \* the lines written by log, in order
  outcome,             \* what main's promise settled with, or "pending"
  ev                   \* main's evaluation locals

vars == <<file, url, configOverrideBound, pc, chrome, launchCalls,
          lighthouseCalls, killCalls, auditConfig, data, promise, logs,
          outcome, ev>>

env == <<file, url, configOverrideBound>>
calls == <<launchCalls, lighthouseCalls, killCalls>>

Init ==
  /\ file \in Files
  /\ url \in Urls
  /\ configOverrideBound \in BOOLEAN
  /\ pc = "idle"
  /\ chrome = "none"
  /\ launchCalls = 0
  /\ lighthouseCalls = 0
  /\ killCalls = 0
  /\ auditConfig = NoAuditConfig
  /\ data = NoData
  /\ promise = "none"
  /\ logs = << >>
  /\ outcome = "pending"
  /\ ev = NoEval

\* main returns: its promise settles and nothing runs afterwards.
Finish(out, res, locals) ==
  /\ pc' = "done"
  /\ logs' = logs \o out
  /\ outcome' = res
  /\ ev' = locals

\* launchChromeAndRunLighthouse is entered: chromeLauncher.launch is called.
launchChromeAndRunLighthouse ==
  /\ pc' = "launching"
  /\ launchCalls' = launchCalls + 1
  /\ promise' = "pending"

\* main of index.js up to its await.  The argument {...opts, configOverride}
\* is evaluated before the call: an unbound configOverride throws a
\* ReferenceError inside the try block.
main_lib ==
  /\ pc = "idle" /\ file = "lib"
  /\ IF UrlMissing(url)
     THEN /\ Finish(<<UsageLine>>, UsageError, NoEval)
          /\ UNCHANGED <<launchCalls, promise>>
     ELSE IF ~configOverrideBound
     THEN /\ Finish(<<RequestingLine, ErrorLine>>, GenericFailure, NoEval)
          /\ UNCHANGED <<launchCalls, promise>>
     ELSE /\ launchChromeAndRunLighthouse
          /\ logs' = logs \o <<RequestingLine>>
          /\ UNCHANGED <<outcome, ev>>
  /\ UNCHANGED <<env, chrome, lighthouseCalls, killCalls, auditConfig, data>>

\* main of part_000 up to its await: both configuration files are read
\* first, and either read can throw.
main_part ==
  /\ pc = "idle" /\ file = "part"
  /\ IF UrlMissing(url)
     THEN /\ Finish(<<UsageLine>>, UsageError, NoEval)
          /\ UNCHANGED <<launchCalls, promise, auditConfig>>
     ELSE \/ /\ Finish(<<RequestingLine, ErrorLine>>, GenericFailure, NoEval)
             /\ UNCHANGED <<launchCalls, promise, auditConfig>>
          \/ /\ \E ac \in AuditConfigs : auditConfig' = ac
             /\ launchChromeAndRunLighthouse
             /\ logs' = logs \o <<RequestingLine>>
             /\ UNCHANGED <<outcome, ev>>
  /\ UNCHANGED <<env, chrome, lighthouseCalls, killCalls, data>>

\* chromeLauncher.launch resolves and its then-callback runs: the lighthouse
\* configuration is read (which can throw), the advisory is printed unless
\* the configuration is marked custom, and lighthouse is called.
launch_resolve ==
  /\ pc = "launching"
  /\ chrome' = "running"
  /\ \/ /\ promise' = "rejected"
        /\ pc' = "settled"
        /\ UNCHANGED <<logs, lighthouseCalls>>
     \/ /\ \E isCustom \in BOOLEAN :
             logs' = IF isCustom THEN logs ELSE logs \o <<AdvisoryLine>>
        /\ lighthouseCalls' = lighthouseCalls + 1
        /\ pc' = "auditing"
        /\ UNCHANGED promise
  /\ UNCHANGED <<env, launchCalls, killCalls, auditConfig, data, outcome, ev>>

\* chromeLauncher.launch rejects: no browser, no callback.
launch_reject ==
  /\ pc = "launching"
  /\ promise' = "rejected"
  /\ pc' = "settled"
  /\ UNCHANGED <<env, chrome, calls, auditConfig, data, logs, outcome, ev>>

\* lighthouse resolves with results, whose lhr is any report of a shape the
\* revision can be given: the callback calls chrome.kill().
lighthouse_resolve ==
  /\ pc = "auditing"
  /\ \E sh \in ShapesFor(file) :
       \E a \in AuditMapsOf(sh), its \in ItemSeqsOf(sh),
          sb \in SpeedBudgetMapsOf(sh) :
         data' = Report(sh.hasAudits, a, sh.hasPerformanceBudget,
                        sh.hasDetails, its, sh.hasConfigSettings,
                        sh.hasSpeedBudgets, sb)
  /\ killCalls' = killCalls + 1
  /\ pc' = "killing"
  /\ UNCHANGED <<env, chrome, launchCalls, lighthouseCalls, auditConfig,
                 promise, logs, outcome, ev>>

\* lighthouse rejects: the then-callback holding chrome.kill() is skipped.
lighthouse_reject ==
  /\ pc = "auditing"
  /\ promise' = "rejected"
  /\ pc' = "settled"
  /\ UNCHANGED <<env, chrome, calls, auditConfig, data, logs, outcome, ev>>

\* chrome.kill() resolves: the promise resolves with results.lhr.
kill_resolve ==
  /\ pc = "killing"
  /\ chrome' = "killed"
  /\ promise' = "resolved"
  /\ pc' = "settled"
  /\ UNCHANGED <<env, calls, auditConfig, data, logs, outcome, ev>>

\* chrome.kill() rejects: so does the promise.
kill_reject ==
  /\ pc = "killing"
  /\ promise' = "rejected"
  /\ pc' = "settled"
  /\ UNCHANGED <<env, chrome, calls, auditConfig, data, logs, outcome, ev>>

\* main of index.js after its await.
resume_lib ==
  /\ pc = "settled" /\ file = "lib"
  /\ LET r == IF promise = "rejected" THEN Caught(<< >>, NoEval)
              ELSE Evaluate_lib(data)
     IN Finish(r.lines, r.outcome, r.ev)
  /\ UNCHANGED <<env, chrome, calls, auditConfig, data, promise>>

\* main of part_000 after its await.
resume_part ==
  /\ pc = "settled" /\ file = "part"
  /\ LET r == IF promise = "rejected" THEN Caught(<< >>, NoEval)
              ELSE Evaluate_part(auditConfig, data)
     IN Finish(r.lines, r.outcome, r.ev)
  /\ UNCHANGED <<env, chrome, calls, auditConfig, data, promise>>

Next ==
  \/ main_lib
  \/ main_part
  \/ launch_resolve
  \/ launch_reject
  \/ lighthouse_resolve
  \/ lighthouse_reject
  \/ kill_resolve
  \/ kill_reject
  \/ resume_lib
  \/ resume_part

Spec == Init /\ [][Next]_vars


\* ------------------------------------------------------------ vocabulary
Range(q) == {q[j] : j \in 1..Len(q)}

\* The itemized lines among the printed ones (headings are not itemized).
DiagnosticLines == SelectSeq(logs, LAMBDA l : l.kind \in DiagnosticKinds)

\* The thresholds the run was configured with: configSettings.speedBudgets
\* for index.js, config/audit.json for part_000.
BudgetOf ==
  IF file = "lib" THEN data.speedBudgets
  ELSE [id \in {auditConfig.audits[j].id : j \in 1..Len(auditConfig.audits)}
          |-> TimeBudget]

\* Audits of the report that carry a numeric measurement.
MeasuredIds == {id \in DOMAIN data.audits : data.audits[id].hasNumeric}

\* Configured and measured / configured and not measured.
EvaluatedIds == DOMAIN BudgetOf \cap MeasuredIds
SkippedIds == DOMAIN BudgetOf \ MeasuredIds

Overage(id) == data.audits[id].numericValue - BudgetOf[id]
OverIds == {id \in EvaluatedIds : Overage(id) > 0}

\* Items that carry an over-budget field.
CountOverItems ==
  {i \in 1..Len(data.items) : data.items[i].countOverBudget.t # "undefined"}
SizeOverItems ==
  {i \in 1..Len(data.items) : data.items[i].sizeOverBudget.t # "undefined"}
OverItems == CountOverItems \cup SizeOverItems

\* Every over-budget field is what the audit engine writes: a positive
\* number of bytes, a string "<n> requests", or nothing.
EngineShaped ==
  \A i \in 1..Len(data.items) :
    /\ data.items[i].sizeOverBudget \in {Undefined, Num(ItemSizeOver)}
    /\ data.items[i].countOverBudget \in {Undefined, Requests(ItemCountOver)}

\* The report and the configuration have every section main reads.
AllSections ==
  /\ data.hasAudits /\ data.hasPerformanceBudget
  /\ file = "lib" => data.hasSpeedBudgets
  /\ file = "part" => auditConfig.hasAudits

\* launchChromeAndRunLighthouse handed main a report.
ReportReturned == pc = "done" /\ promise = "resolved"


\* ------------------------------------------------------------ properties

\* C1: a run whose report has a timing audit or a resource item over budget
\* prints at least one itemized diagnostic line and rejects with
\* "Budgets broken", never with "Failed to get lighthouse data".
C1_BudgetViolationReported ==
  (ReportReturned /\ AllSections /\ EngineShaped
     /\ (OverIds # {} \/ OverItems # {}))
  => /\ outcome = BudgetsBroken
     /\ Len(DiagnosticLines) >= 1

\* C2: a run with a non-empty URL whose report satisfies every configured
\* threshold and has no resource item over budget invoked the audit engine,
\* printed the success confirmation and no diagnostic line, and resolved.
C2_AllWithinSucceeds ==
  (ReportReturned /\ AllSections /\ OverIds = {} /\ OverItems = {})
  => /\ url \notin {"undefined", ""}
     /\ lighthouseCalls = 1
     /\ outcome = Resolved
     /\ logs[Len(logs)] = SuccessLine
     /\ Len(DiagnosticLines) = 0

\* C2 witness: a successful run with one audit exactly at its threshold and
\* a resource item without over-budget fields.
C2_Witness ==
  /\ ReportReturned /\ AllSections /\ OverIds = {} /\ OverItems = {}
  /\ outcome = Resolved
  /\ \E id \in EvaluatedIds : Overage(id) = 0
  /\ Len(data.items) >= 1

\* C3: with the URL argument absent or empty the browser is never launched
\* and the audit engine never called, and main rejects with the usage error.
C3_UsageError ==
  url \in {"undefined", ""}
  => /\ launchCalls = 0 /\ lighthouseCalls = 0 /\ chrome = "none"
     /\ pc \in {"idle", "done"}
     /\ pc = "done" => outcome = "Please provide a valid url"

\* C3 witness: a finished run that was given the empty string as URL.
C3_Witness ==
  /\ pc = "done" /\ url = ""
  /\ outcome = UsageError /\ logs = <<UsageLine>>

\* C4: in a run that launched the browser and called lighthouse, chrome.kill()
\* was called exactly once when main returns, whether lighthouse resolved or
\* rejected.
C4_ChromeKilledOnce ==
  (pc = "done" /\ chrome # "none" /\ lighthouseCalls = 1) => killCalls = 1

\* C5: a failure of the audit engine collaborator ends the run with
\* "Failed to get lighthouse data"; the engine is called at most once, and
\* nothing is evaluated, rendered or reported as success afterwards.
C5_AcquisitionFailure ==
  /\ launchCalls <= 1 /\ lighthouseCalls <= 1
  /\ (pc = "done" /\ promise = "rejected")
     => /\ outcome = "Failed to get lighthouse data"
        /\ ~ev.evaluated
        /\ Len(DiagnosticLines) = 0
        /\ \A j \in 1..Len(logs) : logs[j] # SuccessLine

\* C5 witness: lighthouse was called once, failed, and the run is over.
C5_Witness ==
  /\ pc = "done" /\ promise = "rejected"
  /\ lighthouseCalls = 1 /\ killCalls = 0
  /\ outcome = GenericFailure


\* C6: an audit with a configured threshold and a numeric measurement is
\* classified OVER exactly when measured - threshold > 0, and its overage is
\* that difference: at the threshold it is WITHIN, one above it is OVER by 1.
C6_StrictThreshold ==
  ev.evaluated =>
    /\ EvaluatedIds \subseteq Range(ev.speedKeys)
    /\ \A j \in 1..Len(ev.speedKeys) :
         LET id == ev.speedKeys[j] IN
         id \in EvaluatedIds =>
           /\ ev.overBudgetBy[j] =
                IF data.audits[id].numericValue - BudgetOf[id] > 0
                THEN [t |-> "number",
                      v |-> data.audits[id].numericValue - BudgetOf[id]]
                ELSE [t |-> "undefined", v |-> 0]
           /\ id \in Range(ev.successfulSpeedAudits)
                <=> data.audits[id].numericValue <= BudgetOf[id]

\* C6 witness: one audit measured exactly at its threshold and counted as
\* successful, another measured one above and left out with overage 1.
C6_Witness ==
  /\ ev.evaluated
  /\ \E j, k \in 1..Len(ev.speedKeys) :
       /\ ev.speedKeys[j] \in EvaluatedIds /\ ev.speedKeys[k] \in EvaluatedIds
       /\ Overage(ev.speedKeys[j]) = 0
       /\ ev.speedKeys[j] \in Range(ev.successfulSpeedAudits)
       /\ Overage(ev.speedKeys[k]) = 1
       /\ ev.overBudgetBy[k] = Num(1)
       /\ ev.speedKeys[k] \notin Range(ev.successfulSpeedAudits)

\* C7 as stated: a configured audit that the report lacks, or has without a
\* numeric measurement, is in neither the numerator (the successful audits)
\* nor the denominator (the audits counted) of the validity computation.
C7_SkippedExcluded ==
  ev.evaluated =>
    \A id \in SkippedIds :
      /\ id \notin Range(ev.speedKeys)
      /\ id \notin Range(ev.successfulSpeedAudits)

\* C7 as amended: such an audit is never classified OVER.  Where the validity
\* computation counts it, it counts it in the numerator and the denominator
\* alike; it is never among the failed audits, no diagnostic line names it,
\* and validity depends only on the resource items and the measured audits.
C7_SkippedNeverFails ==
  ev.evaluated =>
    /\ \A id \in SkippedIds :
         /\ id \in Range(ev.speedKeys) <=> id \in Range(ev.successfulSpeedAudits)
         /\ id \notin Range(ev.failedSpeedAudits)
         /\ \A j \in 1..Len(logs) : logs[j].id # id
    /\ ev.isValid <=> /\ Len(ev.successfulBundleAudits) = ev.itemsTotal
                      /\ OverIds = {}

\* C7 witness: a valid run that counted a configured audit the report does
\* not measure.
C7_Witness ==
  /\ ev.evaluated /\ ev.isValid /\ outcome = Resolved
  /\ \E id \in SkippedIds :
       /\ id \in Range(ev.speedKeys)
       /\ id \in Range(ev.successfulSpeedAudits)

\* C8: a resource item is OVER exactly when its size-over-budget or its
\* count-over-budget field is present, and the items the validity count
\* rejects are the items the count and size diagnostics select.
C8_ItemClassificationsAgree ==
  ev.evaluated =>
    \A i \in 1..ev.itemsTotal :
      /\ i \notin Range(ev.successfulBundleAudits) <=> i \in OverItems
      /\ ev.rendered =>
           (i \notin Range(ev.successfulBundleAudits)
              <=> \/ i \in Range(ev.failedRequestCountAudits)
                  \/ i \in Range(ev.failedBundleAudits))

\* C9: isValid holds exactly when nothing is OVER, and an invalid run with N
\* budgets OVER (timing, request count and size failures counted one each)
\* prints exactly N itemized diagnostic lines.
C9_ValidIffNoneOver ==
  (ev.evaluated /\ EngineShaped) =>
    LET N == Cardinality(OverIds) + Cardinality(CountOverItems)
             + Cardinality(SizeOverItems)
    IN /\ ev.isValid <=> N = 0
       /\ ~ev.isValid => Len(DiagnosticLines) = N

\* C10: a report without its "audits" mapping ends the run in an outcome of
\* its own: not the generic acquisition failure, not a budget violation,
\* not success.
C10_ReportShapeError ==
  (ReportReturned /\ ~data.hasAudits)
  => outcome \notin {GenericFailure, BudgetsBroken, Resolved}

====
